---- MODULE Spec2Model ----
(***************************************************************************)
(* WhisperDesk transcription scripts: the transcript export pipeline of    *)
(* transcribe_audio.py (save_transcript, format_time, main) and the        *)
(* result wrapper of real_transcribe.py.                                   *)
(*                                                                         *)
(* Text is a sequence of one-character strings; file contents are          *)
(* sequences of bytes (UTF-8).  A Python float is the exact binary value   *)
(* m / 2^k, with m a little-endian sequence of bits, so that the rounding  *)
(* of IEEE 754 binary64 arithmetic is computed and not assumed.            *)
(***************************************************************************)
EXTENDS Integers, Sequences, FiniteSets, TLC

VARIABLES
    \* format_time called on its own
    fmtPc,      \* "call" | "done" | "idle"
    fmtIn,      \* the float literal passed to format_time, in milliseconds
    fmtOut,     \* the string format_time returned
    \* transcribe_audio.py: main and save_transcript
    pc,         \* the statement main is at
    audioExists, \* os.path.exists(audio_file)
    dirDepth,   \* how many leading components of output_dir exist
    files,      \* file name -> [exists, data] inside output_dir
    result,     \* what the Transcription Provider returned
    loop_i,     \* position of the subtitle loop in result["segments"]
    written,    \* the strings passed to f.write for transcript.srt
    ret,        \* what save_transcript returned to main
    exc,        \* the exception propagating out of the try block
    reported,   \* main's except clause printed the error
    runs,       \* how many times main was started
    \* history of the current run of main
    pre,        \* [depth, files] when the run started
    failedStep, \* the export step that failed or crashed, -1 when none
    raisedBy,   \* the exception as first raised
    opened,     \* files open() was called on
    closed,     \* files whose with-block completed
    called,     \* callees entered: "provider", "save_transcript"
    prevOk,     \* [valid, result, files]: the run before this one exported
    \* real_transcribe.py: the script and its transcribe_audio
    rPc,        \* "idle" | "start" | "call" | "branch" | "exit"
    rAudio,     \* os.path.exists(audio_file)
    rProvider,  \* what whisper did: an error or the raw result
    rOut,       \* the value transcribe_audio returned
    rRaised,    \* the exception that left transcribe_audio
    rFile,      \* transcription_result.json: [exists, data]
    rFilePre,   \* transcription_result.json when the script started
    rWrote,     \* the script opened transcription_result.json
    rExit       \* the exit status, -1 while running

fmtVars == <<fmtPc, fmtIn, fmtOut>>
mainVars == <<pc, audioExists, dirDepth, files, result, loop_i, written, ret, exc,
              reported, runs, pre, failedStep, raisedBy, opened, closed, called,
              prevOk>>
realVars == <<rPc, rAudio, rProvider, rOut, rRaised, rFile, rFilePre, rWrote, rExit>>
vars == <<fmtVars, mainVars, realVars>>

Min(a, b) == IF a < b THEN a ELSE b
Max(a, b) == IF a > b THEN a ELSE b

(***************************************************************************)
(* Arbitrary-precision naturals as little-endian bit sequences.  Shifts    *)
(* and rounding work on the bits; multiplication and division by a small   *)
(* number work on limbs of LimbBits bits.                                  *)
(***************************************************************************)
LimbBits == 16
LimbBase == 2 ^ LimbBits

Trim(b) ==
    LET ones == {i \in 1..Len(b) : b[i] = 1}
    IN  IF ones = {} THEN <<>>
        ELSE SubSeq(b, 1, CHOOSE i \in ones : \A j \in ones : j <= i)

ShiftLeft(b, n) == [i \in 1..n |-> 0] \o b
ShiftRight(b, n) == SubSeq(b, n + 1, Len(b))
LowBits(b, n) == [i \in 1..n |-> IF i <= Len(b) THEN b[i] ELSE 0]

RECURSIVE LimbValue(_, _, _)
LimbValue(b, from, j) ==
    IF j > LimbBits \/ from + j - 1 > Len(b) THEN 0
    ELSE b[from + j - 1] * 2 ^ (j - 1) + LimbValue(b, from, j + 1)

BitsToLimbs(b) ==
    [i \in 1..((Len(b) + LimbBits - 1) \div LimbBits) |->
        LimbValue(b, LimbBits * (i - 1) + 1, 1)]

LimbsToBits(l) ==
    Trim([i \in 1..(LimbBits * Len(l)) |->
            (l[((i - 1) \div LimbBits) + 1] \div 2 ^ ((i - 1) % LimbBits)) % 2])

RECURSIVE NatToLimbs(_)
NatToLimbs(n) ==
    IF n = 0 THEN <<>> ELSE <<n % LimbBase>> \o NatToLimbs(n \div LimbBase)

RECURSIVE LimbsToNat(_)
LimbsToNat(l) == IF l = <<>> THEN 0 ELSE l[1] + LimbBase * LimbsToNat(Tail(l))

NatToBits(n) == LimbsToBits(NatToLimbs(n))
BitsToNat(b) == LimbsToNat(BitsToLimbs(b))

RECURSIVE MulCarry(_, _, _)
MulCarry(l, m, c) ==
    IF l = <<>> THEN NatToLimbs(c)
    ELSE LET v == l[1] * m + c
         IN  <<v % LimbBase>> \o MulCarry(Tail(l), m, v \div LimbBase)

\* b * m, for 0 < m < 2^15.
MulSmall(b, m) == LimbsToBits(MulCarry(BitsToLimbs(b), m, 0))

RECURSIVE LimbDivMod(_, _)
LimbDivMod(l, m) ==
    IF l = <<>> THEN [q |-> <<>>, r |-> 0]
    ELSE LET h == LimbDivMod(Tail(l), m)
             v == h.r * LimbBase + l[1]
         IN  [q |-> <<v \div m>> \o h.q, r |-> v % m]

\* Quotient and remainder of b by m, for 0 < m < 2^15.
DivMod(b, m) ==
    LET d == LimbDivMod(BitsToLimbs(b), m) IN [q |-> LimbsToBits(d.q), r |-> d.r]

IncBits(b) ==
    LET zeros == {i \in 1..Len(b) : b[i] = 0}
        z     == IF zeros = {} THEN Len(b) + 1
                 ELSE CHOOSE i \in zeros : \A j \in zeros : i <= j
    IN  [i \in 1..Max(Len(b), z) |-> IF i < z THEN 0 ELSE IF i = z THEN 1 ELSE b[i]]

(***************************************************************************)
(* IEEE 754 binary64: a result is rounded to MantissaBits significant bits, *)
(* ties to even.  RoundBits(b, sticky) rounds the natural b (followed by a *)
(* non-zero fraction when sticky) and returns the kept bits and the number *)
(* of low bits dropped.                                                    *)
(***************************************************************************)
MantissaBits == 53

RoundBits(b, sticky) ==
    LET L == Len(b) IN
    IF L <= MantissaBits THEN [m |-> b, d |-> 0]
    ELSE LET d    == L - MantissaBits
             top  == ShiftRight(b, d)
             rest == \E i \in 1..(d - 1) : b[i] = 1
             up   == b[d] = 1 /\ (rest \/ sticky \/ top[1] = 1)
         IN  [m |-> IF up THEN IncBits(top) ELSE top, d |-> d]

\* Bits of scaling used to divide a decimal literal by 1000 before rounding.
ParseShift == 64

\* The float a decimal literal of t milliseconds (t/1000 seconds) denotes.
Double(t) ==
    IF t = 0 THEN [m |-> <<>>, k |-> 0]
    ELSE LET dm == DivMod(ShiftLeft(NatToBits(t), ParseShift), 1000)
             r  == RoundBits(dm.q, dm.r # 0)
         IN  [m |-> r.m, k |-> ParseShift - r.d]

Whole(x) == BitsToNat(ShiftRight(x.m, x.k))

\* x // n for a float x >= 0 and an int n > 0: the floor, exactly.
FloatFloorDiv(x, n) == [m |-> NatToBits(Whole(x) \div n), k |-> 0]

\* x % n for a float x >= 0 and an int n > 0: fmod, exactly.
FloatMod(x, n) == [m |-> Trim(LowBits(x.m, x.k) \o NatToBits(Whole(x) % n)), k |-> x.k]

\* x * n: the exact product rounded to the nearest float.
FloatMul(x, n) ==
    LET r == RoundBits(MulSmall(x.m, n), FALSE)
    IN  [m |-> r.m, k |-> x.k - r.d]

\* int(x) for a float x >= 0: truncation.
IntOf(x) == Whole(x)

(***************************************************************************)
(* String formatting.                                                      *)
(***************************************************************************)
DigitChars == <<"0", "1", "2", "3", "4", "5", "6", "7", "8", "9">>

RECURSIVE Digits(_)
Digits(n) ==
    IF n < 10 THEN <<DigitChars[n + 1]>>
    ELSE Digits(n \div 10) \o <<DigitChars[(n % 10) + 1]>>

\* f"{n:0Wd}": at least w digits, zero-padded on the left.
ZeroPad(n, w) ==
    LET d == Digits(n) IN [i \in 1..(Max(w, Len(d)) - Len(d)) |-> "0"] \o d

\* format_time(seconds), transcribe_audio.py lines 45-53.
format_time(seconds) ==
    LET hours     == IntOf(FloatFloorDiv(seconds, 3600))
        minutes   == IntOf(FloatFloorDiv(FloatMod(seconds, 3600), 60))
        secs      == IntOf(FloatMod(seconds, 60))
        millisecs == IntOf(FloatMul(FloatMod(seconds, 1), 1000))
    IN  ZeroPad(hours, 2) \o <<":">> \o ZeroPad(minutes, 2) \o <<":">>
          \o ZeroPad(secs, 2) \o <<",">> \o ZeroPad(millisecs, 3)

(***************************************************************************)
(* Characters and UTF-8.  A character is a one-character string; "U+00E9"  *)
(* stands for the single non-ASCII character e-acute and "U+0060" for the  *)
(* grave accent.                                                           *)
(***************************************************************************)
Ascii ==
    <<" ", "!", "\"", "#", "$", "%", "&", "'", "(", ")", "*", "+", ",", "-",
      ".", "/", "0", "1", "2", "3", "4", "5", "6", "7", "8", "9", ":", ";",
      "<", "=", ">", "?", "@", "A", "B", "C", "D", "E", "F", "G", "H", "I",
      "J", "K", "L", "M", "N", "O", "P", "Q", "R", "S", "T", "U", "V", "W",
      "X", "Y", "Z", "[", "\\", "]", "^", "_", "U+0060", "a", "b", "c", "d", "e",
      "f", "g", "h", "i", "j", "k", "l", "m", "n", "o", "p", "q", "r", "s",
      "t", "u", "v", "w", "x", "y", "z", "{", "|", "}", "~">>

CodePoint(c) ==
    IF c = "\n" THEN 10
    ELSE IF c = "\t" THEN 9
    ELSE IF c = "\r" THEN 13
    ELSE IF c = "U+00E9" THEN 233
    ELSE 31 + (CHOOSE i \in 1..Len(Ascii) : Ascii[i] = c)

CharOf(cp) ==
    IF cp = 10 THEN "\n"
    ELSE IF cp = 9 THEN "\t"
    ELSE IF cp = 13 THEN "\r"
    ELSE IF cp = 233 THEN "U+00E9"
    ELSE Ascii[cp - 31]

\* The UTF-8 bytes of one character (code points below 2048).
Utf8Char(c) ==
    LET cp == CodePoint(c)
    IN  IF cp < 128 THEN <<cp>> ELSE <<192 + (cp \div 64), 128 + (cp % 64)>>

\* str.encode("utf-8"); the recursion halves the string.
RECURSIVE Utf8Encode(_)
Utf8Encode(s) ==
    IF s = <<>> THEN <<>>
    ELSE IF Len(s) = 1 THEN Utf8Char(s[1])
    ELSE LET h == Len(s) \div 2
         IN  Utf8Encode(SubSeq(s, 1, h)) \o Utf8Encode(SubSeq(s, h + 1, Len(s)))

\* bytes.decode("utf-8") of well-formed input.
RECURSIVE Utf8Decode(_)
Utf8Decode(b) ==
    IF b = <<>> THEN <<>>
    ELSE IF b[1] < 128 THEN <<CharOf(b[1])>> \o Utf8Decode(Tail(b))
    ELSE <<CharOf((b[1] - 192) * 64 + (b[2] - 128))>> \o Utf8Decode(Tail(Tail(b)))

\* The concatenation of a sequence of sequences; the recursion halves it.
RECURSIVE Concat(_)
Concat(ss) ==
    IF ss = <<>> THEN <<>>
    ELSE IF Len(ss) = 1 THEN ss[1]
    ELSE LET h == Len(ss) \div 2
         IN  Concat(SubSeq(ss, 1, h)) \o Concat(SubSeq(ss, h + 1, Len(ss)))

\* Characters str.strip() removes (the whitespace of the alphabet).
Whitespace == {" ", "\n", "\t", "\r"}

\* str.strip(): leading and trailing whitespace removed.
strip(s) ==
    LET keep == {i \in 1..Len(s) : s[i] \notin Whitespace}
    IN  IF keep = {} THEN <<>>
        ELSE SubSeq(s, CHOOSE i \in keep : \A j \in keep : i <= j,
                       CHOOSE i \in keep : \A j \in keep : j <= i)

(***************************************************************************)
(* json.dump(obj, f, indent=2, ensure_ascii=...).  A JSON value is a       *)
(* tagged record: str (text), num (a float, by its millisecond literal),   *)
(* bool, list (a sequence of values), dict (a sequence of <<key, value>>,  *)
(* in insertion order).                                                    *)
(***************************************************************************)
JStr(s) == [t |-> "str", v |-> s]
JNum(ms) == [t |-> "num", v |-> ms]
JBool(b) == [t |-> "bool", v |-> b]
JList(l) == [t |-> "list", v |-> l]
JDict(d) == [t |-> "dict", v |-> d]

HexChars == <<"0", "1", "2", "3", "4", "5", "6", "7", "8", "9",
              "a", "b", "c", "d", "e", "f">>

Hex4(n) ==
    [i \in 1..4 |-> HexChars[((n \div (16 ^ (4 - i))) % 16) + 1]]

JsonEscapeChar(c, ensure_ascii) ==
    IF c = "\"" THEN <<"\\", "\"">>
    ELSE IF c = "\\" THEN <<"\\", "\\">>
    ELSE IF c = "\n" THEN <<"\\", "n">>
    ELSE IF c = "\r" THEN <<"\\", "r">>
    ELSE IF c = "\t" THEN <<"\\", "t">>
    ELSE IF ensure_ascii /\ CodePoint(c) > 127
         THEN <<"\\", "u">> \o Hex4(CodePoint(c))
    ELSE <<c>>

JsonString(s, ensure_ascii) ==
    <<"\"">> \o Concat([i \in 1..Len(s) |-> JsonEscapeChar(s[i], ensure_ascii)])
        \o <<"\"">>

\* float.__repr__ of the float the literal of ms milliseconds denotes: the
\* shortest decimal that reads back as the same float.
FloatRepr(ms) ==
    LET f  == ZeroPad(ms % 1000, 3)
        nz == {i \in 1..3 : f[i] # "0"}
        n  == IF nz = {} THEN 1 ELSE CHOOSE i \in nz : \A j \in nz : j <= i
    IN  Digits(ms \div 1000) \o <<".">> \o SubSeq(f, 1, n)

Indent(level) == [i \in 1..(2 * level) |-> " "]

\* The items of a container, one per line at the given level.
JsonItems(items, level) ==
    Concat([i \in 1..Len(items) |->
              (IF i = 1 THEN <<>> ELSE <<",">>) \o <<"\n">> \o Indent(level)
                  \o items[i]])

RECURSIVE JsonEncode(_, _, _)
JsonEncode(val, level, ensure_ascii) ==
    CASE val.t = "str"  -> JsonString(val.v, ensure_ascii)
      [] val.t = "num"  -> FloatRepr(val.v)
      [] val.t = "bool" -> IF val.v THEN <<"t", "r", "u", "e">>
                                      ELSE <<"f", "a", "l", "s", "e">>
      [] val.t = "list" ->
            IF val.v = <<>> THEN <<"[", "]">>
            ELSE <<"[">>
                 \o JsonItems([i \in 1..Len(val.v) |->
                        JsonEncode(val.v[i], level + 1, ensure_ascii)], level + 1)
                 \o <<"\n">> \o Indent(level) \o <<"]">>
      [] val.t = "dict" ->
            IF val.v = <<>> THEN <<"{", "}">>
            ELSE <<"{">>
                 \o JsonItems([i \in 1..Len(val.v) |->
                        JsonString(val.v[i][1], ensure_ascii) \o <<":", " ">>
                        \o JsonEncode(val.v[i][2], level + 1, ensure_ascii)],
                        level + 1)
                 \o <<"\n">> \o Indent(level) \o <<"}">>

json_dumps(val, ensure_ascii) == JsonEncode(val, 0, ensure_ascii)

(***************************************************************************)
(* Transcription results.  A result is [text, language, segments]; a       *)
(* segment is [start, end, text], start and end being floats named by      *)
(* their millisecond literals.  These are the fields the scripts read;     *)
(* the provider's other fields are left out.                               *)
(***************************************************************************)
Str_text == <<"t", "e", "x", "t">>
Str_segments == <<"s", "e", "g", "m", "e", "n", "t", "s">>
Str_language == <<"l", "a", "n", "g", "u", "a", "g", "e">>
Str_start == <<"s", "t", "a", "r", "t">>
Str_end == <<"e", "n", "d">>

SegmentJson(seg) ==
    JDict(<< <<Str_start, JNum(seg.start)>>, <<Str_end, JNum(seg.end)>>,
             <<Str_text, JStr(seg.text)>> >>)

ResultJson(r) ==
    JDict(<< <<Str_text, JStr(r.text)>>,
             <<Str_segments,
               JList([i \in 1..Len(r.segments) |-> SegmentJson(r.segments[i])])>>,
             <<Str_language, JStr(r.language)>> >>)

\* The results the Transcription Provider may return: the segments are a
\* chronological selection of at most MaxSegs segments of SegmentPool, and
\* the full text is the segment texts joined, as the provider builds it.
MaxSegs == 2

SegmentPool ==
    << [start |-> 0, end |-> 2300, text |-> <<" ", "a", "\n", "b">>],
       [start |-> 5000, end |-> 7500, text |-> <<" ", "h", "e", "l", "l", "o", " ">>],
       [start |-> 59999, end |-> 3661234, text |-> <<"U+00E9", " ", "\n">>] >>

RECURSIVE Pick(_, _)
Pick(pool, sel) ==
    IF pool = <<>> THEN <<>>
    ELSE (IF Len(pool) \in sel THEN Pick(SubSeq(pool, 1, Len(pool) - 1), sel)
                                       \o <<pool[Len(pool)]>>
          ELSE Pick(SubSeq(pool, 1, Len(pool) - 1), sel))

SegmentLists ==
    {Pick(SegmentPool, sel) :
        sel \in {x \in SUBSET (1..Len(SegmentPool)) : Cardinality(x) <= MaxSegs}}

ResultOf(segments) ==
    [text |-> Concat([n \in 1..Len(segments) |-> segments[n].text]),
     language |-> <<"e", "n">>,
     segments |-> segments]

Results == {ResultOf(segments) : segments \in SegmentLists}

NoResult == [text |-> <<>>, language |-> <<>>, segments |-> <<>>, none |-> TRUE]

(***************************************************************************)
(* The file system under output_dir and the failures it can report.        *)
(***************************************************************************)
\* output_dir = "/home/ubuntu/WhisperDesk/transcripts" has four components.
PathDepth == 4

TxtName == "transcript.txt"
JsonName == "transcript.json"
SrtName == "transcript.srt"
FileNames == {TxtName, JsonName, SrtName}

Absent == [exists |-> FALSE, data |-> <<>>]
File(data) == [exists |-> TRUE, data |-> data]

\* What an earlier export or another program left in a file.
OldData == Utf8Encode(<<"o", "l", "d", "\n">>)

NoExc == [type |-> "none", path |-> ""]
OSError(path) == [type |-> "OSError", path |-> path]
ProviderError == [type |-> "ProviderError", path |-> ""]

\* A write that fails leaves at most MaxCut bytes of the data behind.
MaxCut == 1

PartialWrites(data) ==
    {SubSeq(data, 1, c) : c \in 0..Min(MaxCut, Len(data) - 1)}

\* os.makedirs(output_dir, exist_ok=...) with `depth` components present:
\* the outcomes [ok, depth].  A mkdir that fails leaves the directories
\* created before it.
os_makedirs(depth, exist_ok) ==
    IF depth = PathDepth
    THEN {[ok |-> exist_ok, depth |-> depth]}
    ELSE {[ok |-> TRUE, depth |-> PathDepth]}
         \cup {[ok |-> FALSE, depth |-> j - 1] : j \in (depth + 1)..PathDepth}

\* Line 22 without exist_ok.
makedirs_outcomes_not_exist_ok(depth) == os_makedirs(depth, FALSE)

\* save_transcript, line 22.
makedirs_outcomes(depth) == os_makedirs(depth, TRUE)

\* The content of a file right after open(path, "a"): what it held.
open_append(old) == old.data

\* The content of a file right after open(path, "w"): nothing.
open_truncate(old) == <<>>

\* with open(path, "w") as f: f.write(data): the outcomes [ok, file].
\* open fails when the directory is missing and may fail otherwise (the file
\* is then untouched); a failing write or flush leaves part of the data.
write_file(depth, old, data) ==
    IF depth < PathDepth THEN {[ok |-> FALSE, file |-> old]}
    ELSE {[ok |-> TRUE, file |-> File(open_truncate(old) \o data)],
          [ok |-> FALSE, file |-> old]}
         \cup {[ok |-> FALSE, file |-> File(open_truncate(old) \o part)] :
                  part \in PartialWrites(data)}

(***************************************************************************)
(* save_transcript and main of transcribe_audio.py.                        *)
(***************************************************************************)
\* Lines 25-27: the bytes written to transcript.txt.
txt_data_stripped(r) == Utf8Encode(strip(r.text))

txt_data(r) == Utf8Encode(r.text)

\* Lines 30-32: the bytes written to transcript.json.
json_data(r) == Utf8Encode(json_dumps(ResultJson(r), FALSE))

\* enumerate(result["segments"], 1): the index of the n-th segment.
block_index_from_zero(n) == n - 1

block_index(n) == n

Arrow == <<" ", "-", "-", ">", " ">>

\* format_time of every float a segment can carry, computed once.
SegmentTimes ==
    {SegmentPool[n].start : n \in 1..Len(SegmentPool)}
        \cup {SegmentPool[n].end : n \in 1..Len(SegmentPool)}

FormattedTimes == [t \in SegmentTimes |-> format_time(Double(t))]

\* Line 41 without the blank line that ends a block.
srt_block_unterminated(idx, segment) ==
    Digits(idx) \o <<"\n">>
        \o FormattedTimes[segment.start] \o Arrow
        \o FormattedTimes[segment.end] \o <<"\n">>
        \o strip(segment.text) \o <<"\n">>

\* Lines 38-41: the string written for one segment.
srt_block(idx, segment) ==
    LET start_time == FormattedTimes[segment.start]
        end_time   == FormattedTimes[segment.end]
        text       == strip(segment.text)
    IN  Digits(idx) \o <<"\n">> \o start_time \o Arrow \o end_time \o <<"\n">>
            \o text \o <<"\n", "\n">>

\* The bytes transcript.srt holds after a complete export.
srt_data(r) ==
    Utf8Encode(Concat([n \in 1..Len(r.segments) |->
                          srt_block(block_index(n), r.segments[n])]))

\* The bytes of the three files for every result, computed once.
ExportData ==
    [r \in Results |->
        [n \in FileNames |->
            CASE n = TxtName -> txt_data(r)
              [] n = JsonName -> json_data(r)
              [] n = SrtName -> srt_data(r)]]

\* The statements of save_transcript, in order, by the name of the step;
\* "srt_loop" stands for the loop and the end of its with-block.
save_steps_early_return ==
    <<"makedirs", "write_txt", "write_json", "return">>

save_steps_json_first ==
    <<"makedirs", "write_json", "write_txt", "open_srt", "srt_loop", "return">>

save_steps ==
    <<"makedirs", "write_txt", "write_json", "open_srt", "srt_loop", "return">>

SavePcs == {"makedirs", "write_txt", "write_json", "open_srt", "srt_loop", "return"}

NextStep(p) ==
    LET k == CHOOSE n \in 1..Len(save_steps) : save_steps[n] = p
    IN  IF k < Len(save_steps) THEN save_steps[k + 1] ELSE "report"

\* The export step a statement belongs to: 0 the directory, 1..3 the files
\* in the order txt, json, srt, 4 the return.
StepOf(p) ==
    CASE p = "makedirs" -> 0
      [] p = "write_txt" -> 1
      [] p = "write_json" -> 2
      [] p \in {"open_srt", "srt_loop"} -> 3
      [] p = "return" -> 4

FileStep(name) ==
    CASE name = TxtName -> 1 [] name = JsonName -> 2 [] name = SrtName -> 3

\* Lines 59-61 without the return.
after_audio_check_unguarded(exists) == "transcribe"

\* Lines 59-61: main returns when the audio file is missing.
after_audio_check(exists) == IF exists THEN "transcribe" ELSE "no_audio"

EndPcs == {"done", "raised", "no_audio", "crashed"}

MaxRuns == 2

InitFiles ==
    {f \in [FileNames -> {Absent, File(OldData)}] :
        dirDepth < PathDepth => \A n \in FileNames : f[n] = Absent}

MainInit ==
    /\ pc = "idle"
    /\ audioExists \in BOOLEAN
    /\ dirDepth \in 0..PathDepth
    /\ files \in InitFiles
    /\ result = NoResult
    /\ loop_i = 0
    /\ written = <<>>
    /\ ret = [ok |-> FALSE, paths |-> <<>>]
    /\ exc = NoExc
    /\ reported = FALSE
    /\ runs = 0
    /\ pre = [depth |-> dirDepth, files |-> files]
    /\ failedStep = -1
    /\ raisedBy = NoExc
    /\ opened = {}
    /\ closed = {}
    /\ called = {}
    /\ prevOk = [valid |-> FALSE, result |-> NoResult, files |-> files]

\* main, lines 55-67: a run of the script starts.
MainStart ==
    /\ pc \in {"idle"} \cup EndPcs
    /\ runs < MaxRuns
    /\ runs' = runs + 1
    /\ pc' = after_audio_check(audioExists)
    /\ prevOk' = IF ret.ok
                 THEN [valid |-> TRUE, result |-> result, files |-> files]
                 ELSE [valid |-> FALSE, result |-> NoResult, files |-> files]
    /\ result' = NoResult
    /\ loop_i' = 0
    /\ written' = <<>>
    /\ ret' = [ok |-> FALSE, paths |-> <<>>]
    /\ exc' = NoExc
    /\ reported' = FALSE
    /\ pre' = [depth |-> dirDepth, files |-> files]
    /\ failedStep' = -1
    /\ raisedBy' = NoExc
    /\ opened' = {}
    /\ closed' = {}
    /\ called' = {}
    /\ UNCHANGED <<audioExists, dirDepth, files>>

\* An exception leaves save_transcript at export step `step`.
Raise(e, step) ==
    /\ exc' = e
    /\ raisedBy' = e
    /\ failedStep' = step
    /\ pc' = "except"

\* Lines 71 and 6-16: the provider returns a result or raises.
Transcribe ==
    /\ pc = "transcribe"
    /\ called' = called \cup {"provider"}
    /\ \/ /\ \E r \in Results : result' = r
          /\ pc' = "makedirs"
          /\ UNCHANGED <<exc, raisedBy, failedStep>>
       \/ /\ exc' = ProviderError
          /\ raisedBy' = ProviderError
          /\ pc' = "except"
          /\ UNCHANGED <<result, failedStep>>
    /\ UNCHANGED <<audioExists, dirDepth, files, loop_i, written, ret, reported,
                   runs, pre, opened, closed, prevOk>>

\* Line 22: os.makedirs(output_dir, exist_ok=True).
MakeDirs ==
    /\ pc = "makedirs"
    /\ called' = called \cup {"save_transcript"}
    /\ \E o \in makedirs_outcomes(dirDepth) :
          /\ dirDepth' = o.depth
          /\ IF o.ok
             THEN /\ pc' = NextStep("makedirs")
                  /\ UNCHANGED <<exc, raisedBy, failedStep>>
             ELSE Raise(OSError("output_dir"), 0)
    /\ UNCHANGED <<audioExists, files, result, loop_i, written, ret, reported, runs,
                   pre, opened, closed, prevOk>>

\* A with-block that opens `name` for writing and writes `data`.
WriteWhole(step, name, data) ==
    /\ pc = step
    /\ called' = called \cup {"save_transcript"}
    /\ opened' = opened \cup {name}
    /\ \E o \in write_file(dirDepth, files[name], data) :
          /\ files' = [files EXCEPT ![name] = o.file]
          /\ IF o.ok
             THEN /\ pc' = NextStep(step)
                  /\ closed' = closed \cup {name}
                  /\ UNCHANGED <<exc, raisedBy, failedStep>>
             ELSE /\ Raise(OSError(name), StepOf(step))
                  /\ UNCHANGED closed
    /\ UNCHANGED <<audioExists, dirDepth, result, loop_i, written, ret, reported,
                   runs, pre, prevOk>>

\* Lines 25-27.
WriteTxt == WriteWhole("write_txt", TxtName, ExportData[result][TxtName])

\* Lines 30-32.
WriteJson == WriteWhole("write_json", JsonName, ExportData[result][JsonName])

\* Lines 35-36: open(srt_path, "w").
OpenSrt ==
    /\ pc = "open_srt"
    /\ opened' = opened \cup {SrtName}
    /\ \/ /\ dirDepth = PathDepth
          /\ files' = [files EXCEPT ![SrtName] = File(open_truncate(files[SrtName]))]
          /\ loop_i' = 1
          /\ pc' = NextStep("open_srt")
          /\ UNCHANGED <<exc, raisedBy, failedStep>>
       \/ /\ Raise(OSError(SrtName), 3)
          /\ UNCHANGED <<files, loop_i>>
    /\ UNCHANGED <<audioExists, dirDepth, result, written, ret, reported, runs,
                   pre, closed, called, prevOk>>

\* What closing transcript.srt flushes to the file.
Flushed == File(files[SrtName].data \o Utf8Encode(Concat(written)))

\* Lines 37-41: one iteration of the loop; a failure closes the file, which
\* flushes the blocks written so far.
SrtWrite ==
    /\ pc = "srt_loop"
    /\ loop_i <= Len(result.segments)
    /\ \/ /\ written' = Append(written, srt_block(block_index(loop_i), result.segments[loop_i]))
          /\ loop_i' = loop_i + 1
          /\ UNCHANGED <<pc, files, exc, raisedBy, failedStep>>
       \/ /\ files' = [files EXCEPT ![SrtName] = Flushed]
          /\ Raise(OSError(SrtName), 3)
          /\ UNCHANGED <<written, loop_i>>
    /\ UNCHANGED <<audioExists, dirDepth, result, ret, reported, runs, pre,
                   opened, closed, called, prevOk>>

\* The end of the loop and of its with-block: the file is flushed and closed.
SrtClose ==
    /\ pc = "srt_loop"
    /\ loop_i > Len(result.segments)
    /\ \/ /\ files' = [files EXCEPT ![SrtName] = Flushed]
          /\ closed' = closed \cup {SrtName}
          /\ pc' = NextStep("srt_loop")
          /\ UNCHANGED <<exc, raisedBy, failedStep>>
       \/ /\ \E part \in PartialWrites(Flushed.data) :
                files' = [files EXCEPT ![SrtName] = File(part)]
          /\ Raise(OSError(SrtName), 3)
          /\ UNCHANGED closed
    /\ UNCHANGED <<audioExists, dirDepth, result, loop_i, written, ret, reported,
                   runs, pre, opened, called, prevOk>>

Path(name) == [dir |-> "/home/ubuntu/WhisperDesk/transcripts", name |-> name]

\* Lines 43 and 74: the three paths reach main.
ReturnPaths ==
    /\ pc = "return"
    /\ ret' = [ok |-> TRUE, paths |-> <<Path(TxtName), Path(JsonName), Path(SrtName)>>]
    /\ pc' = "report"
    /\ UNCHANGED <<audioExists, dirDepth, files, result, loop_i, written, exc,
                   reported, runs, pre, failedStep, raisedBy, opened, closed,
                   called, prevOk>>

\* Lines 76-94: main prints the result, the paths and the segments.
Report ==
    /\ pc = "report"
    /\ pc' = "done"
    /\ UNCHANGED <<audioExists, dirDepth, files, result, loop_i, written, ret, exc,
                   reported, runs, pre, failedStep, raisedBy, opened, closed,
                   called, prevOk>>

\* Lines 96-98: the error is printed and raised again.
Except ==
    /\ pc = "except"
    /\ reported' = TRUE
    /\ pc' = "raised"
    /\ UNCHANGED <<audioExists, dirDepth, files, result, loop_i, written, ret, exc,
                   runs, pre, failedStep, raisedBy, opened, closed, called,
                   prevOk>>

\* The process dies inside save_transcript: memory is lost, files stay.
Crash ==
    /\ pc \in SavePcs
    /\ pc' = "crashed"
    /\ failedStep' = StepOf(pc)
    /\ UNCHANGED <<audioExists, dirDepth, files, result, loop_i, written, ret, exc,
                   reported, runs, pre, raisedBy, opened, closed, called,
                   prevOk>>

(***************************************************************************)
(* real_transcribe.py.                                                     *)
(***************************************************************************)
Str_unknown == <<"u", "n", "k", "n", "o", "w", "n">>
Str_tiny == <<"t", "i", "n", "y">>
Str_success == <<"s", "u", "c", "c", "e", "s", "s">>
Str_model == <<"m", "o", "d", "e", "l">>

\* What whisper can do for one call: load_model raises, transcribe raises,
\* or transcribe returns a dict in which any of the keys may be missing.
RawResults ==
    {[has_text |-> ht, has_language |-> hl, has_segments |-> hs, value |-> r] :
        ht \in BOOLEAN, hl \in BOOLEAN, hs \in BOOLEAN, r \in Results}

ProviderOutcomes ==
    {[kind |-> "load_error", type |-> "RuntimeError", msg |-> "unknown model"],
     [kind |-> "transcribe_error", type |-> "FileNotFoundError", msg |-> "ffmpeg"],
     [kind |-> "transcribe_error", type |-> "RuntimeError", msg |-> "decode failed"]}
    \cup {[kind |-> "result", raw |-> raw] : raw \in RawResults}

NoOutcome == [kind |-> "none"]
NoOut == [none |-> TRUE]

\* The exception the try block of transcribe_audio ends with, if any.
TryException(o) ==
    IF o.kind # "result" THEN [type |-> o.type, msg |-> o.msg]
    ELSE IF ~o.raw.has_text THEN [type |-> "KeyError", msg |-> "'text'"]
    ELSE [type |-> "none", msg |-> ""]

\* An except clause that names RuntimeError only.
catches_runtime_only(type) == type = "RuntimeError"

\* Line 28, except Exception: every error class of the provider derives
\* from Exception.
catches(type) ==
    type \in {"RuntimeError", "FileNotFoundError", "KeyError", "OSError"}

\* Lines 9-32: [raised, value] of one call.
real_transcribe_audio(o, model_name) ==
    LET e == TryException(o) IN
    IF e.type = "none"
    THEN [raised |-> NoExc,
          value  |-> [success  |-> TRUE,
                      text     |-> strip(o.raw.value.text),
                      language |-> IF o.raw.has_language
                                   THEN o.raw.value.language ELSE Str_unknown,
                      segments |-> IF o.raw.has_segments
                                   THEN o.raw.value.segments ELSE <<>>,
                      model    |-> model_name]]
    ELSE IF catches(e.type)
    THEN [raised |-> NoExc, value |-> [success |-> FALSE, error |-> e.msg]]
    ELSE [raised |-> [type |-> e.type, path |-> ""], value |-> NoOut]

\* The dict of a successful call as the JSON value json.dump is given.
RealJson(out) ==
    JDict(<< <<Str_success, JBool(out.success)>>,
             <<Str_text, JStr(out.text)>>,
             <<Str_language, JStr(out.language)>>,
             <<Str_segments,
               JList([n \in 1..Len(out.segments) |-> SegmentJson(out.segments[n])])>>,
             <<Str_model, JStr(out.model)>> >>)

\* Lines 56-57: json.dump(result, f, indent=2), ensure_ascii by default.
real_json_data(out) == Utf8Encode(json_dumps(RealJson(out), TRUE))

RealInit ==
    /\ rPc = "start"
    /\ rAudio \in BOOLEAN
    /\ rProvider = NoOutcome
    /\ rOut = NoOut
    /\ rRaised = NoExc
    /\ rFile \in {Absent, File(OldData)}
    /\ rFilePre = rFile
    /\ rWrote = FALSE
    /\ rExit = -1

RealIdle ==
    /\ rPc = "idle"
    /\ rAudio = FALSE
    /\ rProvider = NoOutcome
    /\ rOut = NoOut
    /\ rRaised = NoExc
    /\ rFile = Absent
    /\ rFilePre = Absent
    /\ rWrote = FALSE
    /\ rExit = -1

\* Lines 36-42: the script checks the audio file.
RealStart ==
    /\ rPc = "start"
    /\ IF rAudio
       THEN rPc' = "call" /\ UNCHANGED rExit
       ELSE rPc' = "exit" /\ rExit' = 1
    /\ UNCHANGED <<rAudio, rProvider, rOut, rRaised, rFile, rFilePre, rWrote>>
    /\ UNCHANGED <<fmtVars, mainVars>>

\* Line 43: result = transcribe_audio(audio_file, "tiny").
RealCall ==
    /\ rPc = "call"
    /\ \E o \in ProviderOutcomes :
          LET r == real_transcribe_audio(o, Str_tiny) IN
          /\ rProvider' = o
          /\ rOut' = r.value
          /\ rRaised' = r.raised
          /\ IF r.raised = NoExc
             THEN rPc' = "branch" /\ UNCHANGED rExit
             ELSE rPc' = "exit" /\ rExit' = 1
    /\ UNCHANGED <<rAudio, rFile, rFilePre, rWrote>>
    /\ UNCHANGED <<fmtVars, mainVars>>

\* Lines 45-58: the result is printed and saved.
RealSave ==
    /\ rPc = "branch"
    /\ rOut.success
    /\ rWrote' = TRUE
    /\ \E w \in write_file(PathDepth, rFile, real_json_data(rOut)) :
          /\ rFile' = w.file
          /\ rExit' = IF w.ok THEN 0 ELSE 1
    /\ rPc' = "exit"
    /\ UNCHANGED <<rAudio, rProvider, rOut, rRaised, rFilePre>>
    /\ UNCHANGED <<fmtVars, mainVars>>

\* Lines 60-62: the failure is printed and the script exits with 1.
RealFail ==
    /\ rPc = "branch"
    /\ ~rOut.success
    /\ rExit' = 1
    /\ rPc' = "exit"
    /\ UNCHANGED <<rAudio, rProvider, rOut, rRaised, rFile, rFilePre, rWrote>>
    /\ UNCHANGED <<fmtVars, mainVars>>

RealNext == RealStart \/ RealCall \/ RealSave \/ RealFail

(***************************************************************************)
(* format_time applied to float literals.                                  *)
(***************************************************************************)
MaxSmallMs == 120

\* The literals of the documented examples and of the segment example.
ExampleMs == {3661234, 59999, 5000, 7500}

TimeInputs == (0..MaxSmallMs) \cup ExampleMs

MainIdle ==
    /\ pc = "idle"
    /\ audioExists = FALSE
    /\ dirDepth = 0
    /\ files = [n \in FileNames |-> Absent]
    /\ result = NoResult
    /\ loop_i = 0
    /\ written = <<>>
    /\ ret = [ok |-> FALSE, paths |-> <<>>]
    /\ exc = NoExc
    /\ reported = FALSE
    /\ runs = 0
    /\ pre = [depth |-> 0, files |-> files]
    /\ failedStep = -1
    /\ raisedBy = NoExc
    /\ opened = {}
    /\ closed = {}
    /\ called = {}
    /\ prevOk = [valid |-> FALSE, result |-> NoResult, files |-> files]

FmtIdle == fmtPc = "idle" /\ fmtIn = 0 /\ fmtOut = <<>>

FmtInit ==
    /\ fmtPc = "call" /\ fmtIn \in TimeInputs /\ fmtOut = <<>>
    /\ MainIdle /\ RealIdle

FormatTimeCall ==
    /\ fmtPc = "call"
    /\ fmtOut' = format_time(Double(fmtIn))
    /\ fmtPc' = "done"
    /\ UNCHANGED <<fmtIn, mainVars, realVars>>

\* format_time on every literal of TimeInputs.
SpecFmt == FmtInit /\ [][FormatTimeCall]_vars

(***************************************************************************)
(* The specifications.                                                     *)
(***************************************************************************)
Init == MainInit /\ FmtIdle /\ RealIdle

Next ==
    \/ MainStart /\ UNCHANGED <<fmtVars, realVars>>
    \/ Transcribe /\ UNCHANGED <<fmtVars, realVars>>
    \/ MakeDirs /\ UNCHANGED <<fmtVars, realVars>>
    \/ WriteTxt /\ UNCHANGED <<fmtVars, realVars>>
    \/ WriteJson /\ UNCHANGED <<fmtVars, realVars>>
    \/ OpenSrt /\ UNCHANGED <<fmtVars, realVars>>
    \/ SrtWrite /\ UNCHANGED <<fmtVars, realVars>>
    \/ SrtClose /\ UNCHANGED <<fmtVars, realVars>>
    \/ ReturnPaths /\ UNCHANGED <<fmtVars, realVars>>
    \/ Report /\ UNCHANGED <<fmtVars, realVars>>
    \/ Except /\ UNCHANGED <<fmtVars, realVars>>
    \/ Crash /\ UNCHANGED <<fmtVars, realVars>>

\* Runs of transcribe_audio.py, one after the other, on one file system.
Spec == Init /\ [][Next]_vars

\* One run of real_transcribe.py.
InitReal == RealInit /\ MainIdle /\ FmtIdle

SpecReal == InitReal /\ [][RealNext]_vars

(***************************************************************************)
(* Properties.                                                             *)
(***************************************************************************)
Newlines(s) == {k \in 1..Len(s) : s[k] = "\n"}

\* The position of the n-th line break of s; 0 for n = 0.
NthNewline(s, n) ==
    IF n = 0 THEN 0
    ELSE CHOOSE k \in Newlines(s) : Cardinality({j \in Newlines(s) : j <= k}) = n

\* The n-th line of s, without its line break.
Line(s, n) == SubSeq(s, NthNewline(s, n - 1) + 1, NthNewline(s, n) - 1)

\* What follows the n-th line of s.
AfterLine(s, n) == SubSeq(s, NthNewline(s, n) + 1, Len(s))

LineCount(s) == Cardinality(Newlines(s))

TimeLine(seg) ==
    FormattedTimes[seg.start] \o <<" ", "-", "-", ">", " ">>
        \o FormattedTimes[seg.end]

\* What each file holds after a complete export of r.
NewData(name, r) == ExportData[r][name]

\* C1: the subtitle file gets exactly one block per segment; the k-th block
\* written starts with the index k (counted from 1) and carries the start,
\* end and text of the k-th segment, so that no segment is skipped,
\* duplicated or reordered; the file holds the blocks in that order.
C1_BlocksFollowSegments ==
    /\ \A k \in 1..Len(written) :
          /\ k <= Len(result.segments)
          /\ LineCount(written[k]) >= 2
          /\ Line(written[k], 1) = Digits(k)
          /\ Line(written[k], 2) = TimeLine(result.segments[k])
          /\ AfterLine(written[k], 2) = strip(result.segments[k].text) \o <<"\n", "\n">>
    /\ ret.ok =>
          /\ Len(written) = Len(result.segments)
          /\ files[SrtName] = File(Utf8Encode(Concat(written)))

C1_Witness ==
    /\ ret.ok
    /\ Len(result.segments) = 2
    /\ Len(written) = 2

\* C2: save_transcript returns the three paths only after the directory
\* step and the three writes have succeeded; when a step fails the error
\* reaches the caller as it was raised and no paths are returned.
C2_PathsOnlyAfterAllWrites ==
    /\ ret.ok =>
          /\ ret.paths = <<Path(TxtName), Path(JsonName), Path(SrtName)>>
          /\ dirDepth = PathDepth
          /\ closed = FileNames
          /\ \A n \in FileNames : files[n] = File(NewData(n, result))
          /\ exc = NoExc
          /\ failedStep = -1
    /\ (failedStep \in 0..3 /\ pc \in {"except", "raised"}) =>
          /\ ~ret.ok
          /\ ret.paths = <<>>
          /\ exc # NoExc
          /\ exc = raisedBy
    /\ ~(pc \in {"report", "done"} /\ ~ret.ok)

C2_Witness ==
    /\ pc = "raised"
    /\ failedStep = 3
    /\ closed = {TxtName, JsonName}
    /\ exc = OSError(SrtName)

\* C3: nothing is cleaned up or rolled back: when the export fails or
\* crashes at step k (0 the directory, then txt, json, srt in this order),
\* the file of every earlier step holds the new content and the file of
\* every later step holds what it held before the call.
C3_NoRollback ==
    failedStep \in 0..4 =>
        \A n \in FileNames :
            /\ FileStep(n) < failedStep => files[n] = File(NewData(n, result))
            /\ FileStep(n) > failedStep => files[n] = pre.files[n]

C3_Witness ==
    /\ failedStep = 2
    /\ pre.files[TxtName] = File(OldData)
    /\ files[TxtName] = File(NewData(TxtName, result))
    /\ files[TxtName] # pre.files[TxtName]
    /\ files[SrtName] = File(OldData)

\* C4: an export that follows a successful export of the same result leaves
\* the three files as the first one left them.
C4_ReExportIdempotent ==
    (ret.ok /\ prevOk.valid /\ prevOk.result = result) => files = prevOk.files

C4_Witness ==
    /\ ret.ok
    /\ prevOk.valid
    /\ prevOk.result = result
    /\ Len(result.segments) = 2

\* C5: format_time renders a time of t milliseconds as HH:MM:SS,mmm, every
\* component truncated and zero-padded; the documented examples hold.
DecimalFormat(t) ==
    ZeroPad(t \div 3600000, 2) \o <<":">> \o ZeroPad((t \div 60000) % 60, 2)
        \o <<":">> \o ZeroPad((t \div 1000) % 60, 2) \o <<",">>
        \o ZeroPad(t % 1000, 3)

C5_FormatTimeTruncates ==
    fmtPc = "done" =>
        /\ fmtOut = DecimalFormat(fmtIn)
        /\ fmtIn = 0 =>
              fmtOut = <<"0", "0", ":", "0", "0", ":", "0", "0", ",", "0", "0", "0">>
        /\ fmtIn = 3661234 =>
              fmtOut = <<"0", "1", ":", "0", "1", ":", "0", "1", ",", "2", "3", "4">>
        /\ fmtIn = 59999 =>
              fmtOut = <<"0", "0", ":", "0", "0", ":", "5", "9", ",", "9", "9", "9">>

\* C6: the output directory exists before any file is opened: a missing
\* (possibly nested) directory is created with its parents first, an
\* existing one is not an error, and nothing is opened when the creation
\* fails.
C6_DirectoryBeforeFiles ==
    /\ opened # {} => dirDepth = PathDepth
    /\ (pc \in (SavePcs \ {"makedirs"}) \cup {"report", "done"}) =>
          dirDepth = PathDepth
    /\ (failedStep = 0 /\ exc # NoExc) =>
          /\ opened = {}
          /\ files = pre.files
          /\ pre.depth < PathDepth

C6_Witness ==
    /\ pre.depth = 0
    /\ dirDepth = PathDepth
    /\ opened = FileNames
    /\ ret.ok

\* C7: after a successful export, reading transcript.txt back gives exactly
\* the full text of the result: nothing trimmed, nothing appended.
C7_TextReadsBack ==
    ret.ok =>
        /\ files[TxtName].exists
        /\ Utf8Decode(files[TxtName].data) = result.text

C7_Witness ==
    /\ ret.ok
    /\ strip(result.text) # result.text
    /\ \E k \in 1..Len(result.text) : result.text[k] = "U+00E9"

\* C8 as stated: every block written has exactly four lines: the index,
\* the time line, the stripped text, and a blank line.
C8_EveryBlockHasFourLines ==
    \A k \in 1..Len(written) :
        /\ LineCount(written[k]) = 4
        /\ Line(written[k], 1) = Digits(k)
        /\ Line(written[k], 2) = TimeLine(result.segments[k])
        /\ Line(written[k], 3) = strip(result.segments[k].text)
        /\ Line(written[k], 4) = <<>>

\* C8 amended: every block written is the index line, the time line built
\* from format_time, the stripped text and a blank line, in this order; it
\* has exactly four lines when the stripped text has no line break; the
\* segment 5.0 .. 7.5 " hello " gives the documented time and text lines.
C8_BlockLayout ==
    \A k \in 1..Len(written) :
        LET b    == written[k]
            seg  == result.segments[k]
            text == strip(seg.text)
        IN  /\ b = Digits(k) \o <<"\n">> \o TimeLine(seg) \o <<"\n">> \o text
                     \o <<"\n">> \o <<"\n">>
            /\ LineCount(b) = 4 + Cardinality(Newlines(text))
            /\ Newlines(text) = {} =>
                  /\ LineCount(b) = 4
                  /\ Line(b, 3) = text
                  /\ Line(b, 4) = <<>>
            /\ (seg.start = 5000 /\ seg.end = 7500
                  /\ seg.text = <<" ", "h", "e", "l", "l", "o", " ">>) =>
                  AfterLine(b, 1) =
                      <<"0", "0", ":", "0", "0", ":", "0", "5", ",", "0", "0", "0",
                        " ", "-", "-", ">", " ",
                        "0", "0", ":", "0", "0", ":", "0", "7", ",", "5", "0", "0",
                        "\n", "h", "e", "l", "l", "o", "\n", "\n">>

C8_Witness ==
    /\ Len(written) = 2
    /\ result.segments[2].start = 5000
    /\ result.segments[2].text = <<" ", "h", "e", "l", "l", "o", " ">>
    /\ Newlines(strip(result.segments[1].text)) # {}

\* C9: the export starts only with a provider result: with the audio file
\* missing main returns without calling the provider or touching the
\* output directory; when the provider raises, save_transcript is not
\* called, nothing is created or written, and the error is raised again
\* after being reported.
C9_NoExportWithoutResult ==
    /\ pc = "no_audio" =>
          called = {} /\ dirDepth = pre.depth /\ files = pre.files
    /\ "provider" \in called => audioExists
    /\ "save_transcript" \in called => ("provider" \in called /\ result \in Results)
    /\ raisedBy = ProviderError =>
          /\ "save_transcript" \notin called
          /\ opened = {}
          /\ dirDepth = pre.depth
          /\ files = pre.files
          /\ ~ret.ok
          /\ pc \in {"except", "raised"}
    /\ pc = "raised" => (reported /\ exc # NoExc /\ exc = raisedBy)

C9_Witness ==
    /\ pc = "raised"
    /\ raisedBy = ProviderError
    /\ exc = ProviderError
    /\ reported
    /\ dirDepth < PathDepth

\* C10: transcribe_audio of real_transcribe.py never raises: a failure of
\* loading or transcription comes back as {success: False, error}, a
\* success as {success: True, text, language, segments, model} with the
\* defaults "unknown" and []; the script writes transcription_result.json
\* only after a success and exits with 1, writing nothing, after a failure
\* or when the audio file is missing.
RealFailed == TryException(rProvider).type # "none"

C10_FailureIsAValue ==
    /\ rRaised = NoExc
    /\ rWrote => (rProvider.kind = "result" /\ rOut.success)
    /\ (rPc = "exit" /\ ~rAudio) =>
          (rExit = 1 /\ ~rWrote /\ rFile = rFilePre /\ rProvider = NoOutcome)
    /\ rProvider # NoOutcome =>
          IF RealFailed
          THEN /\ rOut = [success |-> FALSE, error |-> TryException(rProvider).msg]
               /\ DOMAIN rOut = {"success", "error"}
               /\ ~rWrote
               /\ rFile = rFilePre
               /\ rPc = "exit" => rExit = 1
          ELSE /\ DOMAIN rOut = {"success", "text", "language", "segments", "model"}
               /\ rOut.success
               /\ rOut.text = strip(rProvider.raw.value.text)
               /\ rOut.language = (IF rProvider.raw.has_language
                                   THEN rProvider.raw.value.language
                                   ELSE <<"u", "n", "k", "n", "o", "w", "n">>)
               /\ rOut.segments = (IF rProvider.raw.has_segments
                                   THEN rProvider.raw.value.segments ELSE <<>>)
               /\ rOut.model = <<"t", "i", "n", "y">>
               /\ (rPc = "exit" /\ rExit = 0) => rFile = File(real_json_data(rOut))

C10_Witness ==
    /\ rPc = "exit"
    /\ rProvider.kind = "result"
    /\ ~rProvider.raw.has_text
    /\ rOut = [success |-> FALSE, error |-> "'text'"]
    /\ rExit = 1

====
